---- MODULE Spec2Model ----
(***************************************************************************)
(* A model of the in-memory event repository of welshman                   *)
(* (packages/util/src/Repository.ts): its seven maps, publish, clear,      *)
(* load (with its yield points between chunks), hasEvent, isDeleted and    *)
(* query.                                                                  *)
(*                                                                         *)
(* Strings are TLA+ strings.  A JavaScript Map is a function whose DOMAIN  *)
(* is the set of keys; the insertion order of eventsById (the order its    *)
(* values() and keys() iterate in) is kept in idOrder.  An optional value  *)
(* (Map.get that may be undefined, event.wrap) is a sequence of length 0   *)
(* or 1.                                                                   *)
(***************************************************************************)
EXTENDS Integers, Sequences, FiniteSets, TLC

VARIABLES
    eventsById,       \* Map<string, T>: id -> event
    idOrder,          \* insertion order of the keys of eventsById
    eventsByWrap,     \* Map<string, T>: wrapper id -> event
    eventsByAddress,  \* Map<string, T>: address -> event
    eventsByTag,      \* Map<string, T[]>: "<letter>:<value>" -> events
    eventsByDay,      \* Map<number, T[]>: day -> events
    eventsByAuthor,   \* Map<string, T[]>: pubkey -> events
    deletes,          \* Map<string, number>: id or address -> timestamp
    loads,            \* the load calls suspended at `await sleep(1)`
    emitted,          \* the 'update' notifications emitted by the last step
    last              \* the last call made and what it returned

vars == <<eventsById, idOrder, eventsByWrap, eventsByAddress, eventsByTag,
          eventsByDay, eventsByAuthor, deletes, loads, emitted, last>>

(***************************************************************************)
(* Bounds of the model.                                                    *)
(***************************************************************************)
\* publish and load are called from outside only while the work in flight (the
\* events stored, the loads suspended, the events they have yet to publish)
\* and the events of the call are no more than this
MaxStored == 3

(***************************************************************************)
(* Program constants.                                                      *)
(***************************************************************************)
DAY == 86400

DELETE == 5

EPOCH == 0

(***************************************************************************)
(* Generic helpers: Map and array operations.                              *)
(***************************************************************************)
EmptyMap == << >>

\* Map.get(k), as an optional
MapGet(m, k) == IF k \in DOMAIN m THEN <<m[k]>> ELSE << >>

\* Map.set(k, v)
MapSet(m, k, v) == [x \in (DOMAIN m) \cup {k} |-> IF x = k THEN v ELSE m[x]]

\* m.get(k) || [] for the maps of arrays
Bucket(m, k) == IF k \in DOMAIN m THEN m[k] ELSE << >>

\* this.deletes.get(k) || 0
DeletedAt(d, k) == IF k \in DOMAIN d THEN d[k] ELSE 0

Max(a, b) == IF a >= b THEN a ELSE b

Range(s) == {s[i] : i \in 1..Len(s)}

\* a.filter(x => x !== duplicate)
RECURSIVE Without(_, _)
Without(s, x) ==
    IF s = << >> THEN << >>
    ELSE IF Head(s) = x THEN Without(Tail(s), x)
         ELSE <<Head(s)>> \o Without(Tail(s), x)

\* uniq: keeps the first occurrence of each element
RECURSIVE uniq(_)
uniq(s) ==
    IF s = << >> THEN << >>
    ELSE LET r == uniq(SubSeq(s, 1, Len(s) - 1))
             x == s[Len(s)]
         IN IF x \in Range(r) THEN r ELSE Append(r, x)

\* flatten / flatMap over a sequence of sequences
RECURSIVE flatten(_)
flatten(ss) == IF ss = << >> THEN << >> ELSE Head(ss) \o flatten(Tail(ss))

(***************************************************************************)
(* Events.  An event is a record [id, pubkey, created_at, kind, tags,      *)
(* wrap, sig]; tags is a sequence of tags, a tag a sequence of strings;    *)
(* wrap is the optional wrapper's id; sig tells whether the event carries  *)
(* the signature that makes it a TrustedEvent.                             *)
(***************************************************************************)
Ev(id, pubkey, created_at, kind, tags) ==
    [id |-> id, pubkey |-> pubkey, created_at |-> created_at, kind |-> kind,
     tags |-> tags, wrap |-> << >>, sig |-> TRUE]

\* the length of the strings that occur as the first element of a tag
StrLen(s) == CASE s = "" -> 0
               [] s \in {"a", "d", "e", "t"} -> 1
               [] OTHER -> 3

\* the value of the event's first d tag, or the empty string
Identifier(e) ==
    LET ds == {i \in 1..Len(e.tags) : e.tags[i][1] = "d" /\ Len(e.tags[i]) >= 2}
    IN IF ds = {} THEN ""
       ELSE e.tags[CHOOSE i \in ds : \A j \in ds : i <= j][2]

\* getAddress: kind:pubkey:identifier
getAddress(e) == ToString(e.kind) \o ":" \o e.pubkey \o ":" \o Identifier(e)

\* isReplaceable: the kind is replaceable or parameterized replaceable
isReplaceable(e) ==
    \/ e.kind \in {0, 3}
    \/ e.kind >= 10000 /\ e.kind < 20000
    \/ e.kind >= 30000 /\ e.kind < 40000

\* isTrustedEvent: the event is signed, or is the unwrapped content of a wrapper
isTrustedEvent(e) == e.sig \/ e.wrap # << >>

getDay(ts) == ts \div DAY

(***************************************************************************)
(* The repository.  The operations are written over a record s of the      *)
(* seven maps, so that load can call publish once per event of a chunk.    *)
(***************************************************************************)
Store ==
    [eventsById |-> eventsById, idOrder |-> idOrder, eventsByWrap |-> eventsByWrap,
     eventsByAddress |-> eventsByAddress, eventsByTag |-> eventsByTag,
     eventsByDay |-> eventsByDay, eventsByAuthor |-> eventsByAuthor,
     deletes |-> deletes]

\* the maps as constructed, and as clear leaves them
EmptyStore ==
    [eventsById |-> EmptyMap, idOrder |-> << >>, eventsByWrap |-> EmptyMap,
     eventsByAddress |-> EmptyMap, eventsByTag |-> EmptyMap,
     eventsByDay |-> EmptyMap, eventsByAuthor |-> EmptyMap, deletes |-> EmptyMap]

isDeletedByAddress(s, e) == DeletedAt(s.deletes, getAddress(e)) > e.created_at

\* a comparison that lets a deletion as old as the event delete it
isDeletedByIdInclusive(s, e) == DeletedAt(s.deletes, e.id) >= e.created_at

isDeletedById(s, e) == DeletedAt(s.deletes, e.id) > e.created_at

isDeleted(s, e) == isDeletedByAddress(s, e) \/ isDeletedById(s, e)

\* _updateIndex with the bucket started afresh when an incumbent is replaced
updateIndexAfresh(m, k, e, duplicate) ==
    MapSet(m, k, IF duplicate # << >> THEN <<e>> ELSE Append(Bucket(m, k), e))

\* _updateIndex(m, k, e, duplicate)
updateIndex(m, k, e, duplicate) ==
    LET a == Bucket(m, k)
        b == IF duplicate # << >> THEN Without(a, duplicate[1]) ELSE a
    IN MapSet(m, k, Append(b, e))

\* tag.slice(0, 2).join(':')
TagKey(tag) == IF Len(tag) >= 2 THEN tag[1] \o ":" \o tag[2] ELSE tag[1]

(***************************************************************************)
(* The events the model publishes and loads.  Ids are content-derived, so  *)
(* no two events share an id.                                              *)
(*   a1..a4  replaceable events at one address: a2 and a3 are newer than   *)
(*           a1 and tie, a4 is newer still and of the next day             *)
(*   n1      an unwrapped note of another author (trusted by its wrap)     *)
(*   u1      an event that is not a TrustedEvent                           *)
(*   d0..d9  deletions of a1 by id, older than, as old as, newer than a1   *)
(*   da      a deletion by address, dn a deletion of n1 and of a3          *)
(***************************************************************************)
A1 == Ev("a1", "p1", 1, 10002, <<<<"t", "x">>>>)

A2 == Ev("a2", "p1", 2, 10002, << >>)

A3 == Ev("a3", "p1", 2, 10002, <<<<"alt", "x">>>>)

A4 == Ev("a4", "p1", DAY, 10002, <<<<"t", "y">>>>)

N1 == [Ev("n1", "p2", 1, 1, <<<<"t", "x">>>>) EXCEPT !.wrap = <<"w1">>, !.sig = FALSE]

U1 == [Ev("u1", "p2", 2, 1, << >>) EXCEPT !.sig = FALSE]

D0 == Ev("d0", "p1", 0, DELETE, <<<<"e", "a1">>>>)

D1 == Ev("d1", "p1", 1, DELETE, <<<<"e", "a1">>>>)

D9 == Ev("d9", "p1", DAY, DELETE, <<<<"e", "a1">>>>)

DA == Ev("da", "p1", 2, DELETE, <<<<"a", getAddress(A1)>>>>)

DN == Ev("dn", "p2", 2, DELETE, <<<<"e", "n1">>, <<"e", "a3">>>>)

Universe == {A1, A2, A3, A4, N1, U1, D0, D1, D9, DA, DN}

\* the events handed to load
LoadPool == {A1, A2}

\* idOrAddress.includes(':'), over the strings of the model: the addresses
\* are the strings with a colon
Addresses == {getAddress(e) : e \in Universe}

HasColon(str) == str \in Addresses

(***************************************************************************)
(* publish                                                                 *)
(***************************************************************************)
getEvent(s, idOrAddress) ==
    IF HasColon(idOrAddress) THEN MapGet(s.eventsByAddress, idOrAddress)
    ELSE MapGet(s.eventsById, idOrAddress)

\* what publish returns to load and to its caller
Unpublished(s) == [store |-> s, accepted |-> FALSE, removed |-> {}]

\* this.deletes.set(tag[1], Math.max(event.created_at, this.deletes.get(tag[1]) || 0))
MergeDelete(d, k, ts) == MapSet(d, k, Max(ts, DeletedAt(d, k)))

\* the loop over event.tags with a tombstone recorded only for a target that
\* the repository holds
RECURSIVE IndexTagsKnownOnly(_, _, _, _, _)
IndexTagsKnownOnly(s, removed, e, duplicate, i) ==
    IF i > Len(e.tags) THEN [store |-> s, accepted |-> TRUE, removed |-> removed]
    ELSE LET tag == e.tags[i] IN
         IF ~(Len(tag) >= 1 /\ StrLen(tag[1]) = 1)
         THEN IndexTagsKnownOnly(s, removed, e, duplicate, i + 1)
         ELSE LET s1 == [s EXCEPT !.eventsByTag =
                             updateIndex(@, TagKey(tag), e, duplicate)]
                  deletedEvent == getEvent(s1, tag[2])
              IN IF e.kind # DELETE \/ deletedEvent = << >>
                 THEN IndexTagsKnownOnly(s1, removed, e, duplicate, i + 1)
                 ELSE LET s2 == [s1 EXCEPT !.deletes =
                                     MergeDelete(@, tag[2], e.created_at)]
                          r2 == IF isDeleted(s2, deletedEvent[1])
                                THEN removed \cup {deletedEvent[1].id}
                                ELSE removed
                      IN IndexTagsKnownOnly(s2, r2, e, duplicate, i + 1)

\* the loop over event.tags, from tag i on
RECURSIVE IndexTags(_, _, _, _, _)
IndexTags(s, removed, e, duplicate, i) ==
    IF i > Len(e.tags) THEN [store |-> s, accepted |-> TRUE, removed |-> removed]
    ELSE LET tag == e.tags[i] IN
         IF ~(Len(tag) >= 1 /\ StrLen(tag[1]) = 1)
         THEN IndexTags(s, removed, e, duplicate, i + 1)
         ELSE LET s1 == [s EXCEPT !.eventsByTag =
                             updateIndex(@, TagKey(tag), e, duplicate)]
              IN IF e.kind # DELETE
                 THEN IndexTags(s1, removed, e, duplicate, i + 1)
                 ELSE LET s2 == [s1 EXCEPT !.deletes =
                                     MergeDelete(@, tag[2], e.created_at)]
                          deletedEvent == getEvent(s2, tag[2])
                          r2 == IF deletedEvent # << >> /\ isDeleted(s2, deletedEvent[1])
                                THEN removed \cup {deletedEvent[1].id}
                                ELSE removed
                      IN IndexTags(s2, r2, e, duplicate, i + 1)

\* the incumbent evicted from eventsById as it is tombstoned
SupersedeEvicting(s, e, duplicate) ==
    IF duplicate = << >> THEN s
    ELSE [s EXCEPT !.deletes = MapSet(@, duplicate[1].id, e.created_at),
                   !.eventsById = [id \in (DOMAIN @) \ {duplicate[1].id} |-> @[id]],
                   !.idOrder = Without(@, duplicate[1].id)]

\* lines 156-161: the incumbent at the address is older than the event
Supersede(s, e, duplicate) ==
    IF duplicate = << >> THEN s
    ELSE [s EXCEPT !.deletes = MapSet(@, duplicate[1].id, e.created_at)]

\* lines 163-197: the event is added to every index
Insert(s, e, duplicate) ==
    LET address == getAddress(e)
        s1 == Supersede(s, e, duplicate)
        removed == IF duplicate = << >> THEN {} ELSE {duplicate[1].id}
        s2 == [s1 EXCEPT !.eventsById = MapSet(@, e.id, e),
                         !.idOrder = IF e.id \in Range(@) THEN @ ELSE Append(@, e.id)]
        s3 == IF isReplaceable(e)
              THEN [s2 EXCEPT !.eventsByAddress = MapSet(@, address, e)]
              ELSE s2
        s4 == IF e.wrap # << >>
              THEN [s3 EXCEPT !.eventsByWrap = MapSet(@, e.wrap[1], e)]
              ELSE s3
        s5 == [s4 EXCEPT !.eventsByDay =
                   updateIndex(@, getDay(e.created_at), e, duplicate)]
        s6 == [s5 EXCEPT !.eventsByAuthor = updateIndex(@, e.pubkey, e, duplicate)]
    IN IndexTags(s6, removed, e, duplicate, 1)

\* a comparison that lets a tie through
IsStaleStrict(e, duplicate) == duplicate # << >> /\ e.created_at < duplicate[1].created_at

\* event.created_at <= duplicate.created_at
IsStale(e, duplicate) == duplicate # << >> /\ e.created_at <= duplicate[1].created_at

\* publish with the incumbent tombstoned before the comparison of the timestamps
publishTombstoneFirst(s, e) ==
    IF e.id \in DOMAIN s.eventsById \/ isDeleted(s, e) THEN Unpublished(s)
    ELSE LET duplicate == MapGet(s.eventsByAddress, getAddress(e))
         IN IF IsStale(e, duplicate) THEN Unpublished(Supersede(s, e, duplicate))
            ELSE Insert(s, e, duplicate)

\* publish(event) for a trusted event: [store, accepted, removed]
publish(s, e) ==
    IF e.id \in DOMAIN s.eventsById \/ isDeleted(s, e) THEN Unpublished(s)
    ELSE LET duplicate == MapGet(s.eventsByAddress, getAddress(e))
         IN IF IsStale(e, duplicate) THEN Unpublished(s)
            ELSE Insert(s, e, duplicate)

\* clear that leaves the tombstones
clearKeepingDeletes(s) == [EmptyStore EXCEPT !.deletes = s.deletes]

\* clear: every map is emptied
clear(s) == EmptyStore

\* hasEvent with a strict comparison
hasEventStrict(s, e) ==
    LET byId == MapGet(s.eventsById, e.id)
        duplicate == IF byId # << >> THEN byId
                     ELSE MapGet(s.eventsByAddress, getAddress(e))
    IN duplicate # << >> /\ duplicate[1].created_at > e.created_at

\* hasEvent(event), as its truthiness
hasEvent(s, e) ==
    LET byId == MapGet(s.eventsById, e.id)
        duplicate == IF byId # << >> THEN byId
                     ELSE MapGet(s.eventsByAddress, getAddress(e))
    IN duplicate # << >> /\ duplicate[1].created_at >= e.created_at

\* dump with the events in the reverse of the order they were inserted in
dumpReversed(s) ==
    [i \in 1..Len(s.idOrder) |-> s.eventsById[s.idOrder[Len(s.idOrder) + 1 - i]]]

\* dump: Array.from(this.eventsById.values())
dump(s) == [i \in 1..Len(s.idOrder) |-> s.eventsById[s.idOrder[i]]]

(***************************************************************************)
(* query.  A filter is a record with some of the fields ids, authors,      *)
(* kinds, since, until, limit and tags; tags holds the filter's "#<name>"  *)
(* fields in the order Object.entries gives them, each as                  *)
(* [name |-> <name>, values |-> <sequence of strings>].                    *)
(***************************************************************************)
Has(filter, k) == k \in DOMAIN filter

omit(ks, filter) == [k \in (DOMAIN filter) \ ks |-> filter[k]]

\* sortBy(e => -e.created_at, events): a stable sort, newest first
RECURSIVE sortByNewest(_)
sortByNewest(events) ==
    IF events = << >> THEN << >>
    ELSE LET r == sortByNewest(SubSeq(events, 1, Len(events) - 1))
             x == events[Len(events)]
             n == Cardinality({i \in 1..Len(r) : r[i].created_at >= x.created_at})
         IN SubSeq(r, 1, n) \o <<x>> \o SubSeq(r, n + 1, Len(r))

\* matchFilter(filter, event): every field present is satisfied
matchFilter(filter, e) ==
    /\ Has(filter, "ids") => e.id \in Range(filter.ids)
    /\ Has(filter, "authors") => e.pubkey \in Range(filter.authors)
    /\ Has(filter, "kinds") => e.kind \in Range(filter.kinds)
    /\ Has(filter, "since") => e.created_at >= filter.since
    /\ Has(filter, "until") => e.created_at <= filter.until
    /\ Has(filter, "tags") =>
          \A i \in 1..Len(filter.tags) :
             \E j \in 1..Len(e.tags) :
                /\ Len(e.tags[j]) >= 2
                /\ e.tags[j][1] = filter.tags[i].name
                /\ e.tags[j][2] \in Range(filter.tags[i].values)

\* filter.since || filter.until
HasTimes(filter) ==
    \/ Has(filter, "since") /\ filter.since # 0
    \/ Has(filter, "until") /\ filter.until # 0

\* the index of the first "#<name>" field with a one-letter name, or 0
FirstTagField(filter) ==
    IF ~Has(filter, "tags") THEN 0
    ELSE LET ok == {i \in 1..Len(filter.tags) : StrLen(filter.tags[i].name) = 1}
         IN IF ok = {} THEN 0 ELSE CHOOSE i \in ok : \A j \in ok : i <= j

\* omit([k], filter) for the i-th "#<name>" field
OmitTagField(filter, i) ==
    LET rest == SubSeq(filter.tags, 1, i - 1) \o SubSeq(filter.tags, i + 1, Len(filter.tags))
    IN IF rest = << >> THEN omit({"tags"}, filter) ELSE [filter EXCEPT !.tags = rest]

\* the narrowing with only the first of filter.ids looked up
NarrowFirstId(s, filter, now) ==
    IF Has(filter, "ids")
    THEN [events |-> IF filter.ids = << >> THEN << >>
                     ELSE MapGet(s.eventsById, filter.ids[1]),
          filter |-> omit({"ids"}, filter)]
    ELSE [events |-> [i \in 1..Len(s.idOrder) |-> s.eventsById[s.idOrder[i]]],
          filter |-> filter]

\* the narrowing by authors with the bucket of the first author alone
NarrowFirstAuthor(s, filter, now) ==
    IF Has(filter, "authors") /\ filter.authors # << >>
    THEN [events |-> Bucket(s.eventsByAuthor, filter.authors[1]),
          filter |-> omit({"authors"}, filter)]
    ELSE [events |-> [i \in 1..Len(s.idOrder) |-> s.eventsById[s.idOrder[i]]],
          filter |-> filter]

\* the narrowing by since and until with the bucket of the first day alone
NarrowSinceDay(s, filter, now) ==
    IF HasTimes(filter)
    THEN [events |-> Bucket(s.eventsByDay,
                            getDay(IF Has(filter, "since") /\ filter.since # 0
                                   THEN filter.since ELSE EPOCH)),
          filter |-> filter]
    ELSE [events |-> [i \in 1..Len(s.idOrder) |-> s.eventsById[s.idOrder[i]]],
          filter |-> filter]

\* lines 84-113: the candidate events and the residual filter
Narrow(s, filter, now) ==
    IF Has(filter, "ids")
    THEN [events |-> flatten([i \in 1..Len(filter.ids) |->
                                 MapGet(s.eventsById, filter.ids[i])]),
          filter |-> omit({"ids"}, filter)]
    ELSE IF Has(filter, "authors")
    THEN [events |-> uniq(flatten([i \in 1..Len(filter.authors) |->
                                      Bucket(s.eventsByAuthor, filter.authors[i])])),
          filter |-> omit({"authors"}, filter)]
    ELSE IF HasTimes(filter)
    THEN LET sinceDay == getDay(IF Has(filter, "since") /\ filter.since # 0
                                THEN filter.since ELSE EPOCH)
             untilDay == getDay(IF Has(filter, "until") /\ filter.until # 0
                                THEN filter.until ELSE now)
         IN [events |-> uniq(flatten([i \in 1..(untilDay - sinceDay + 1) |->
                                         Bucket(s.eventsByDay, sinceDay + i - 1)])),
             filter |-> filter]
    ELSE IF FirstTagField(filter) # 0
    THEN LET f == filter.tags[FirstTagField(filter)]
         IN [events |-> uniq(flatten([i \in 1..Len(f.values) |->
                                         Bucket(s.eventsByTag, f.name \o ":" \o f.values[i])])),
             filter |-> OmitTagField(filter, FirstTagField(filter))]
    ELSE [events |-> [i \in 1..Len(s.idOrder) |-> s.eventsById[s.idOrder[i]]],
          filter |-> filter]

\* lines 115-128: the walk over the sorted candidates
RECURSIVE Walk(_, _, _, _, _)
Walk(s, filter, includeDeleted, events, found) ==
    IF events = << >> THEN found
    ELSE IF Has(filter, "limit") /\ filter.limit # 0 /\ Len(found) >= filter.limit
    THEN found
    ELSE IF ~includeDeleted /\ isDeleted(s, Head(events))
    THEN Walk(s, filter, includeDeleted, Tail(events), found)
    ELSE IF matchFilter(filter, Head(events))
    THEN Walk(s, filter, includeDeleted, Tail(events), Append(found, Head(events)))
    ELSE Walk(s, filter, includeDeleted, Tail(events), found)

\* one iteration of the loop over filters
queryFilter(s, filter, includeDeleted, now) ==
    LET n == Narrow(s, filter, now)
    IN Walk(s, n.filter, includeDeleted, sortByNewest(n.events), << >>)

\* query(filters, {includeDeleted})
query(s, filters, includeDeleted, now) ==
    uniq(flatten([i \in 1..Len(filters) |->
                     queryFilter(s, filters[i], includeDeleted, now)]))

(***************************************************************************)
(* load                                                                    *)
(***************************************************************************)
\* chunk(chunkSize, events): consecutive batches of chunkSize events, the
\* last one possibly shorter
RECURSIVE chunk(_, _)
chunk(n, xs) ==
    IF xs = << >> THEN << >>
    ELSE IF Len(xs) <= n THEN <<xs>>
         ELSE <<SubSeq(xs, 1, n)>> \o chunk(n, SubSeq(xs, n + 1, Len(xs)))

\* the inner loop of load collecting every event, accepted or not
RECURSIVE PublishChunkAll(_, _, _)
PublishChunkAll(s, added, eventsChunk) ==
    IF eventsChunk = << >> THEN [store |-> s, added |-> added]
    ELSE PublishChunkAll(publish(s, Head(eventsChunk)).store,
                         Append(added, Head(eventsChunk)), Tail(eventsChunk))

\* the inner loop of load: publish with shouldNotify false, collecting the
\* accepted events
RECURSIVE PublishChunk(_, _, _)
PublishChunk(s, added, eventsChunk) ==
    IF eventsChunk = << >> THEN [store |-> s, added |-> added]
    ELSE LET r == publish(s, Head(eventsChunk))
         IN PublishChunk(r.store,
                         IF r.accepted THEN Append(added, Head(eventsChunk)) ELSE added,
                         Tail(eventsChunk))

\* load from the head of its remaining chunks up to its next `await sleep(1)`
\* or to its end: [store, chunks, added, chunkSize, done]
LoadStep(s, l) ==
    IF l.chunks = << >>
    THEN [store |-> s, chunks |-> << >>, added |-> l.added,
          chunkSize |-> l.chunkSize, done |-> TRUE]
    ELSE LET r == PublishChunk(s, l.added, Head(l.chunks))
         IN [store |-> r.store, chunks |-> Tail(l.chunks), added |-> r.added,
             chunkSize |-> l.chunkSize,
             done |-> Len(Head(l.chunks)) # l.chunkSize]

\* the suspended call that LoadStep leaves
Suspended(r) == [chunks |-> r.chunks, added |-> r.added, chunkSize |-> r.chunkSize]

\* this.emit('update', {added, removed}) at the end of load
LoadUpdate(r) == [added |-> r.added, removed |-> DOMAIN r.store.deletes]

\* a load from a suspension on to its end, with no other call running at its
\* yields
RECURSIVE LoadRun(_, _)
LoadRun(s, l) ==
    LET r == LoadStep(s, l)
    IN IF r.done THEN r ELSE LoadRun(r.store, Suspended(r))

\* load(events, chunkSize) on a repository that no other caller holds
load(s, events, chunkSize) ==
    LoadRun(clear(s), [chunks |-> chunk(chunkSize, events), added |-> << >>,
                       chunkSize |-> chunkSize])

(***************************************************************************)
(* The state machine.                                                      *)
(***************************************************************************)
SetStore(s) ==
    /\ eventsById' = s.eventsById
    /\ idOrder' = s.idOrder
    /\ eventsByWrap' = s.eventsByWrap
    /\ eventsByAddress' = s.eventsByAddress
    /\ eventsByTag' = s.eventsByTag
    /\ eventsByDay' = s.eventsByDay
    /\ eventsByAuthor' = s.eventsByAuthor
    /\ deletes' = s.deletes

\* the call a step made: op, its event argument if any, what it returned as
\* a boolean and, for query, its arguments and the events it returned
Call(op, event, ok) ==
    [op |-> op, event |-> event, ok |-> ok,
     filters |-> << >>, includeDeleted |-> FALSE, result |-> << >>]

Init ==
    /\ eventsById = EmptyStore.eventsById
    /\ idOrder = EmptyStore.idOrder
    /\ eventsByWrap = EmptyStore.eventsByWrap
    /\ eventsByAddress = EmptyStore.eventsByAddress
    /\ eventsByTag = EmptyStore.eventsByTag
    /\ eventsByDay = EmptyStore.eventsByDay
    /\ eventsByAuthor = EmptyStore.eventsByAuthor
    /\ deletes = EmptyStore.deletes
    /\ loads = << >>
    /\ emitted = << >>
    /\ last = Call("new", << >>, TRUE)

\* the events the suspended loads have yet to publish
RECURSIVE Pending(_)
Pending(ls) ==
    IF ls = << >> THEN 0 ELSE Len(flatten(Head(ls).chunks)) + Pending(Tail(ls))

\* the work in flight
InFlight == Cardinality(DOMAIN eventsById) + Len(loads) + Pending(loads)

\* publish with the validation made after the indices are updated
PublishValidatingLast(e) ==
    /\ InFlight < MaxStored
    /\ LET r == publish(Store, e)
       IN /\ SetStore(r.store)
          /\ emitted' = IF r.accepted /\ isTrustedEvent(e)
                        THEN <<[added |-> <<e>>, removed |-> r.removed]>>
                        ELSE << >>
          /\ last' = IF isTrustedEvent(e) THEN Call("publish", <<e>>, r.accepted)
                     ELSE Call("publish threw", <<e>>, FALSE)
    /\ UNCHANGED loads

\* publish(event), called from outside (shouldNotify defaults to true)
Publish(e) ==
    /\ InFlight < MaxStored
    /\ IF ~isTrustedEvent(e)
       THEN /\ last' = Call("publish threw", <<e>>, FALSE)
            /\ emitted' = << >>
            /\ UNCHANGED <<eventsById, idOrder, eventsByWrap, eventsByAddress,
                           eventsByTag, eventsByDay, eventsByAuthor, deletes>>
       ELSE LET r == publish(Store, e)
            IN /\ SetStore(r.store)
               /\ emitted' = IF r.accepted
                             THEN <<[added |-> <<e>>, removed |-> r.removed]>>
                             ELSE << >>
               /\ last' = Call("publish", <<e>>, r.accepted)
    /\ UNCHANGED loads

\* clear()
Clear ==
    /\ SetStore(clear(Store))
    /\ emitted' = <<[added |-> << >>, removed |-> DOMAIN eventsById]>>
    /\ last' = Call("clear", << >>, TRUE)
    /\ UNCHANGED loads

\* load(events, chunkSize) up to its first await or, with no full chunk, to its end
LoadStart(events, chunkSize) ==
    /\ InFlight + Len(events) <= MaxStored
    /\ LET cleared == [added |-> << >>, removed |-> DOMAIN eventsById]
           r == LoadStep(clear(Store),
                         [chunks |-> chunk(chunkSize, events), added |-> << >>,
                          chunkSize |-> chunkSize])
       IN /\ SetStore(r.store)
          /\ emitted' = IF r.done THEN <<cleared, LoadUpdate(r)>> ELSE <<cleared>>
          /\ loads' = IF r.done THEN loads ELSE Append(loads, Suspended(r))
          /\ last' = Call("load", << >>, r.done)

\* the i-th suspended load resumes after its sleep
LoadResume(i) ==
    /\ i \in 1..Len(loads)
    /\ LET r == LoadStep(Store, loads[i])
       IN /\ SetStore(r.store)
          /\ emitted' = IF r.done THEN <<LoadUpdate(r)>> ELSE << >>
          /\ loads' = IF r.done
                      THEN SubSeq(loads, 1, i - 1) \o SubSeq(loads, i + 1, Len(loads))
                      ELSE [loads EXCEPT ![i] = Suspended(r)]
          /\ last' = Call("load resumed", << >>, r.done)

\* hasEvent(event)
HasEvent(e) ==
    /\ last' = Call("hasEvent", <<e>>, hasEvent(Store, e))
    /\ emitted' = << >>
    /\ UNCHANGED <<eventsById, idOrder, eventsByWrap, eventsByAddress, eventsByTag,
                   eventsByDay, eventsByAuthor, deletes, loads>>

\* the clock read by query
Now == 2 * DAY

\* query(filters, {includeDeleted})
Query(filters, includeDeleted) ==
    /\ last' = [Call("query", << >>, TRUE) EXCEPT
                   !.filters = filters, !.includeDeleted = includeDeleted,
                   !.result = query(Store, filters, includeDeleted, Now)]
    /\ emitted' = << >>
    /\ UNCHANGED <<eventsById, idOrder, eventsByWrap, eventsByAddress, eventsByTag,
                   eventsByDay, eventsByAuthor, deletes, loads>>

\* the filter lists query is called with
IdLists == {<< >>, <<"a1">>, <<"a3", "a1">>, <<"zz", "n1">>, <<"a1", "a1">>, <<"a2", "da">>}

QueryInputs ==
    {<<[ids |-> ids]>> : ids \in IdLists}
      \cup {<<[ids |-> <<"a1">>], [ids |-> <<"a3", "a1">>]>>}

\* the arrays load is called with, and the chunk sizes: an array of two
\* events is loaded in two chunks, each followed by a yield, or in one
LoadInputs ==
    {<< >>} \cup {<<a>> : a \in LoadPool} \cup {<<a, b>> : a \in LoadPool, b \in LoadPool}

ChunkSizes == {1, 2}

Next ==
    \/ \E e \in Universe : Publish(e)
    \/ Clear
    \/ \E events \in LoadInputs, chunkSize \in ChunkSizes :
           LoadStart(events, chunkSize)
    \/ \E i \in DOMAIN loads : LoadResume(i)

\* publish, clear and load, with loads suspended at their yields
Spec == Init /\ [][Next]_vars

\* publish of every event of the model and clear, with the calls that read
\* the repository
NextRead ==
    \/ \E e \in Universe : Publish(e)
    \/ Clear
    \/ \E e \in Universe : HasEvent(e)
    \/ \E filters \in QueryInputs, includeDeleted \in BOOLEAN :
           Query(filters, includeDeleted)

SpecRead == Init /\ [][NextRead]_vars

\* the timestamps of the filters with since and until: 0, a time inside day
\* 0, the two sides of the boundary between day 0 and day 1, and a time
\* after the clock
Times == {0, 1, DAY - 1, DAY, 2 * DAY + 5}

TimeInputs == {<<[since |-> t1, until |-> t2]>> : t1 \in Times, t2 \in Times}

\* publish and clear, with query by since and until
NextTimes ==
    \/ \E e \in Universe : Publish(e)
    \/ Clear
    \/ \E filters \in TimeInputs : Query(filters, FALSE)

SpecTimes == Init /\ [][NextTimes]_vars

\* the limits of the filters with a limit
Limits == 0..2

LimitInputs == {<<[limit |-> n]>> : n \in Limits}

\* publish and clear, with query by limit
NextLimit ==
    \/ \E e \in Universe : Publish(e)
    \/ Clear
    \/ \E filters \in LimitInputs : Query(filters, FALSE)

SpecLimit == Init /\ [][NextLimit]_vars

\* the filters narrowed by the author index or by a tag index
NarrowFilters ==
    LET tx == [name |-> "t", values |-> <<"x">>]
    IN {[authors |-> <<"p1">>],
        [authors |-> <<"p2", "p1">>],
        [authors |-> <<"p1">>, kinds |-> <<10002>>],
        [authors |-> <<"p1">>, since |-> 2, until |-> DAY],
        [authors |-> <<"p1", "p2">>, tags |-> <<tx>>],
        [tags |-> <<tx>>],
        [tags |-> <<[name |-> "t", values |-> <<"y", "x">>]>>],
        [tags |-> <<[name |-> "e", values |-> <<"a1">>]>>],
        [tags |-> <<[name |-> "a", values |-> <<getAddress(A1)>>]>>],
        [tags |-> <<[name |-> "alt", values |-> <<"x">>], tx>>],
        [tags |-> <<tx>>, kinds |-> <<1>>]}

NarrowInputs == {<<f>> : f \in NarrowFilters}

\* publish and clear, with query by authors and by tags
NextNarrow ==
    \/ \E e \in Universe : Publish(e)
    \/ Clear
    \/ \E filters \in NarrowInputs, includeDeleted \in BOOLEAN :
           Query(filters, includeDeleted)

SpecNarrow == Init /\ [][NextNarrow]_vars

\* load(dump()) into a fresh repository, which is the repository from then
\* on; nothing else holds the fresh repository, so the load runs to its end
RoundTrip(chunkSize) ==
    LET r == load(EmptyStore, dump(Store), chunkSize)
    IN /\ SetStore(r.store)
       /\ emitted' = <<[added |-> << >>, removed |-> {}], LoadUpdate(r)>>
       /\ last' = Call("round trip", << >>, TRUE)
       /\ UNCHANGED loads

\* the filter lists the two repositories of a round trip are compared on
RoundTripFilters ==
    QueryInputs \cup TimeInputs \cup LimitInputs \cup NarrowInputs
       \cup {<<omit({"ids"}, [ids |-> << >>])>>}

\* publish alone, with the round trip through dump and load
NextRoundTrip ==
    \/ \E e \in Universe : Publish(e)
    \/ \E chunkSize \in ChunkSizes : RoundTrip(chunkSize)

SpecRoundTrip == Init /\ [][NextRoundTrip]_vars

(***************************************************************************)
(* Properties.                                                             *)
(***************************************************************************)
\* the events of eventsById
Stored == {eventsById[id] : id \in DOMAIN eventsById}

\* the step was publish(e), called from outside
Published(e) == last'.op = "publish" /\ last'.event = <<e>>

\* C1, as a state: the event at an address is stored, has that address, and
\* every other stored event of the address is strictly older
NewestAtAddress ==
    \A addr \in DOMAIN eventsByAddress :
       LET current == eventsByAddress[addr]
       IN /\ current \in Stored
          /\ getAddress(current) = addr
          /\ \A e \in Stored :
                getAddress(e) = addr /\ e # current => e.created_at < current.created_at

\* C1, as a step: publish(e) at an occupied address returns false and keeps
\* the incumbent when e is not newer, and changes the entry only to e and
\* only when e is strictly newer
PublishAtOccupiedAddress ==
    \A e \in Universe :
       Published(e) /\ getAddress(e) \in DOMAIN eventsByAddress =>
          LET addr == getAddress(e)
              incumbent == eventsByAddress[addr]
          IN /\ addr \in DOMAIN eventsByAddress'
             /\ e.created_at <= incumbent.created_at =>
                   ~last'.ok /\ eventsByAddress'[addr] = incumbent
             /\ eventsByAddress'[addr] # incumbent =>
                   e.created_at > incumbent.created_at /\ eventsByAddress'[addr] = e

\* C1: after any sequence of publish calls since the last clear, every entry
\* of eventsByAddress is the accepted event with the greatest created_at for
\* its address; an incoming event for an occupied address is rejected when
\* its created_at is less than or equal to the incumbent's (a tie favours the
\* incumbent) and replaces the incumbent only when it is strictly greater.
C1_LastWriteWins == [][NewestAtAddress' /\ PublishAtOccupiedAddress]_vars

\* a tie was rejected at an address that an earlier publish had taken over
C1_Witness ==
    /\ last.op = "publish" /\ ~last.ok
    /\ last.event # << >>
    /\ LET e == last.event[1]
       IN /\ e.id \notin DOMAIN eventsById
          /\ ~isDeleted(Store, e)
          /\ getAddress(e) \in DOMAIN eventsByAddress
          /\ eventsByAddress[getAddress(e)].created_at = e.created_at
          /\ \E old \in Stored :
                /\ getAddress(old) = getAddress(e)
                /\ old.created_at < e.created_at

\* the ids and addresses a deletion event names in its one-letter tags
Targets(d) ==
    {d.tags[i][2] : i \in {j \in 1..Len(d.tags) : StrLen(d.tags[j][1]) = 1}}

References(d, x) == x.id \in Targets(d) \/ getAddress(x) \in Targets(d)

\* the events query([{}]) returns: the default query over every stored event
Queryable(s) == Range(query(s, <<omit({"ids"}, [ids |-> << >>])>>, FALSE, Now))

\* C2: when publish accepts a deletion event d that references a live event
\* x by id or by address, x is tombstoned (isDeleted(x) is true and x is left
\* out of the default query) if and only if d.created_at is strictly greater
\* than x.created_at; with d.created_at less than or equal to x.created_at,
\* x stays live and queryable.
C2_DeletionOrdering ==
    [][\A d \in Universe :
         Published(d) /\ last'.ok /\ d.kind = DELETE =>
            \A x \in Universe :
               References(d, x) /\ ~isDeleted(Store, x) =>
                  /\ isDeleted(Store', x) <=> d.created_at > x.created_at
                  /\ x \in Stored =>
                        (x \in Queryable(Store') <=> d.created_at <= x.created_at)]_vars

\* a deletion was accepted that tombstoned an older stored event it names and
\* left live a stored event it names that is as old as itself
C2_Witness ==
    /\ last.op = "publish" /\ last.ok
    /\ last.event # << >>
    /\ LET d == last.event[1]
       IN /\ d.kind = DELETE
          /\ \E x, y \in Stored :
                /\ References(d, x) /\ References(d, y)
                /\ x.created_at < d.created_at /\ y.created_at = d.created_at
                /\ isDeleted(Store, x) /\ x \notin Queryable(Store)
                /\ ~isDeleted(Store, y) /\ y \in Queryable(Store)

\* C3: whenever publish returns false (the id is already present, the event
\* is already tombstoned, or it is a stale or tied replacement), eventsById,
\* eventsByAddress, eventsByWrap, eventsByTag, eventsByDay, eventsByAuthor and
\* deletes are left as they were and no update notification is emitted; and
\* publishing the event just published returns false.
C3_RejectionChangesNothing ==
    [][\A e \in Universe :
         /\ Published(e) /\ ~last'.ok =>
               /\ UNCHANGED <<eventsById, idOrder, eventsByAddress, eventsByWrap,
                              eventsByTag, eventsByDay, eventsByAuthor, deletes>>
               /\ emitted' = << >>
         /\ Published(e) /\ last.op = "publish" /\ last.event = <<e>> => ~last'.ok]_vars

\* publish returned false for an event whose id is stored, for an event that
\* is tombstoned, or for one that is not newer than the event at its address
C3_Rejected(reason) ==
    /\ last.op = "publish" /\ ~last.ok
    /\ last.event # << >>
    /\ LET e == last.event[1]
       IN CASE reason = "seen" -> e.id \in DOMAIN eventsById
            [] reason = "deleted" -> e.id \notin DOMAIN eventsById /\ isDeleted(Store, e)
            [] reason = "stale" ->
                  /\ e.id \notin DOMAIN eventsById /\ ~isDeleted(Store, e)
                  /\ getAddress(e) \in DOMAIN eventsByAddress
                  /\ e.created_at < eventsByAddress[getAddress(e)].created_at

\* a stale replacement was rejected by a repository holding tombstones
C3_Witness == C3_Rejected("stale") /\ DOMAIN deletes # {} /\ DOMAIN eventsByTag # {}

\* the event is in some bucket of the map of arrays m
InSomeBucket(m, e) == \E k \in DOMAIN m : e \in Range(m[k])

\* C4: immediately after a replaceable event c supersedes the incumbent a at
\* its address, a is still in eventsById, a is in no day bucket, no author
\* bucket and no tag bucket, and deletes[a.id] equals c.created_at.
C4_SupersededLeavesEveryBucket ==
    [][\A c \in Universe :
         Published(c) /\ last'.ok /\ getAddress(c) \in DOMAIN eventsByAddress =>
            LET a == eventsByAddress[getAddress(c)]
            IN /\ a.id \in DOMAIN eventsById' /\ eventsById'[a.id] = a
               /\ ~InSomeBucket(eventsByDay', a)
               /\ ~InSomeBucket(eventsByAuthor', a)
               /\ ~InSomeBucket(eventsByTag', a)
               /\ a.id \in DOMAIN deletes' /\ deletes'[a.id] = c.created_at]_vars

\* the step made publish calls and no clear
PublishedOnly == last'.op \in {"publish", "publish threw", "load resumed"}

\* C5: across publish calls with no intervening clear or load, a key of
\* deletes is never removed and its value never decreases.
C5_DeletesOnlyGrow ==
    [][PublishedOnly =>
          \A k \in DOMAIN deletes : k \in DOMAIN deletes' /\ deletes'[k] >= deletes[k]]_vars

\* a newer event has taken the event's address
Superseded(e) ==
    getAddress(e) \in DOMAIN eventsByAddress /\ eventsByAddress[getAddress(e)] # e

\* the keys of the tag buckets an event belongs to
TagKeys(e) ==
    {TagKey(e.tags[i]) : i \in {j \in 1..Len(e.tags) : StrLen(e.tags[j][1]) = 1}}

\* C6: in every state between operations (after any publish or clear, at
\* every yield point between the chunks of load, and after load), every event
\* of eventsById that has not been superseded at its address is in the day
\* bucket floor(created_at / 86400), in the author bucket of its pubkey and
\* in the bucket of each one-letter tag it carries, and every event found in
\* a bucket is in eventsById and sits under a key derived from its own
\* created_at, pubkey or tags.
C6_IndicesConsistent ==
    /\ \A e \in Stored :
          ~Superseded(e) =>
             /\ e \in Range(Bucket(eventsByDay, e.created_at \div DAY))
             /\ e \in Range(Bucket(eventsByAuthor, e.pubkey))
             /\ \A k \in TagKeys(e) : e \in Range(Bucket(eventsByTag, k))
    /\ \A k \in DOMAIN eventsByDay : \A e \in Range(eventsByDay[k]) :
          e \in Stored /\ k = e.created_at \div DAY
    /\ \A k \in DOMAIN eventsByAuthor : \A e \in Range(eventsByAuthor[k]) :
          e \in Stored /\ k = e.pubkey
    /\ \A k \in DOMAIN eventsByTag : \A e \in Range(eventsByTag[k]) :
          e \in Stored /\ k \in TagKeys(e)

\* a load is suspended between two chunks, after a chunk in which an event
\* superseded another
C6_Witness ==
    /\ loads # << >>
    /\ last.op = "load resumed"
    /\ \E e \in Stored : Superseded(e) /\ InSomeBucket(eventsByTag, e)

\* C7: once publish has accepted an event, its id stays in eventsById, mapped
\* to the same event, after every later publish call, those that supersede or
\* delete it included; only clear or load removes it.
C7_AcceptedStays ==
    [][/\ \A e \in Universe :
            Published(e) /\ last'.ok => e.id \in DOMAIN eventsById' /\ eventsById'[e.id] = e
       /\ PublishedOnly =>
             \A id \in DOMAIN eventsById :
                id \in DOMAIN eventsById' /\ eventsById'[id] = eventsById[id]]_vars

\* an event is still stored after one publish superseded it and another
\* deleted it
C7_Witness ==
    /\ last.op = "publish" /\ last.ok
    /\ emitted # << >> /\ emitted[1].removed # {}
    /\ \E x, d \in Stored :
          /\ Superseded(x) /\ isDeletedById(Store, x)
          /\ d.kind = DELETE /\ References(d, x) /\ d.created_at > x.created_at

\* C8: hasEvent(e) is true exactly when eventsById holds an event with e's
\* id, or eventsByAddress holds an event at e's address whose created_at is
\* greater than or equal to e.created_at.
C8_HasEvent ==
    last.op = "hasEvent" =>
       LET e == last.event[1]
           addr == getAddress(e)
       IN last.ok <=>
             \/ e.id \in DOMAIN eventsById
             \/ /\ addr \in DOMAIN eventsByAddress
                /\ eventsByAddress[addr].created_at >= e.created_at

\* hasEvent was asked, of a repository with a superseded event, about a
\* stored event, about an event that is not stored and ties with the event at
\* its address, or about a newer event that is not stored
C8_Asked(case) ==
    /\ last.op = "hasEvent"
    /\ \E x \in Stored : Superseded(x)
    /\ LET e == last.event[1]
       IN CASE case = "stored" -> e.id \in DOMAIN eventsById /\ last.ok
            [] case = "tie" ->
                  /\ e.id \notin DOMAIN eventsById /\ last.ok
                  /\ eventsByAddress[getAddress(e)].created_at = e.created_at
            [] case = "newer" ->
                  /\ e.id \notin DOMAIN eventsById /\ ~last.ok
                  /\ getAddress(e) \in DOMAIN eventsByAddress

C8_Witness == C8_Asked("tie")

\* C9: clear leaves the six indices and deletes empty and emits exactly one
\* update notification, whose added is empty and whose removed is the set of
\* the ids that were in eventsById before the call.
C9_Clear ==
    [][last'.op = "clear" =>
          /\ Store' = EmptyStore
          /\ emitted' = <<[added |-> << >>, removed |-> DOMAIN eventsById]>>]_vars

\* clear has emptied a repository that held events
C9_Witness ==
    /\ last.op = "clear"
    /\ Len(emitted) = 1 /\ Cardinality(emitted[1].removed) >= 2
    /\ Store = EmptyStore

\* every filter of the list has the field ids and no other
OnlyIds(filters) == \A i \in 1..Len(filters) : DOMAIN filters[i] = {"ids"}

\* C10: for a filter whose only field is ids, query returns the same set of
\* events as the ids predicate and the tombstone skip applied to a full scan
\* of eventsById.
C10_IdsNarrowing ==
    last.op = "query" /\ OnlyIds(last.filters) =>
       Range(last.result) =
          {e \in Stored :
             /\ \E i \in 1..Len(last.filters) : e.id \in Range(last.filters[i].ids)
             /\ last.includeDeleted \/ ~isDeleted(Store, e)}

\* a default query by ids named a live event after a tombstoned one, and
\* returned the live one alone
C10_Witness ==
    /\ last.op = "query" /\ OnlyIds(last.filters) /\ ~last.includeDeleted
    /\ Len(last.filters) = 1 /\ Len(last.filters[1].ids) = 2
    /\ LET ids == last.filters[1].ids
       IN /\ ids[1] \in DOMAIN eventsById /\ ids[2] \in DOMAIN eventsById
          /\ ~isDeleted(Store, eventsById[ids[1]])
          /\ isDeleted(Store, eventsById[ids[2]])
          /\ last.result = <<eventsById[ids[1]]>>

\* the list is one filter with the fields since and until and no other
OnlySinceUntil(filters) == Len(filters) = 1 /\ DOMAIN filters[1] = {"since", "until"}

\* C11: for any timestamps T1 and T2, query([{since: T1, until: T2}]) returns
\* exactly the stored events that are not tombstoned and whose created_at is
\* in the inclusive range [T1, T2], wherever T1 and T2 fall relative to the
\* boundaries of the day buckets (T1 or T2 equal to 0 and ranges over several
\* days included).
C11_DayBucketCoverage ==
    last.op = "query" /\ OnlySinceUntil(last.filters) /\ ~last.includeDeleted =>
       LET f == last.filters[1]
           expected == {e \in Stored :
                          /\ ~isDeleted(Store, e)
                          /\ f.since <= e.created_at /\ e.created_at <= f.until}
       IN /\ Range(last.result) = expected
          /\ Len(last.result) = Cardinality(expected)

\* a query from a time inside day 0 to a time inside day 1 returned events of
\* both days, while a stored event of the range is tombstoned
C11_Witness ==
    /\ last.op = "query" /\ OnlySinceUntil(last.filters) /\ ~last.includeDeleted
    /\ LET f == last.filters[1]
       IN /\ f.since > 0 /\ getDay(f.since) = 0 /\ getDay(f.until) = 1
          /\ \E x, y \in Range(last.result) : getDay(x.created_at) # getDay(y.created_at)
          /\ \E z \in Stored : isDeleted(Store, z) /\ f.since <= z.created_at

\* the list is one filter with the field limit and no other
OnlyLimit(filters) == Len(filters) = 1 /\ DOMAIN filters[1] = {"limit"}

\* C12: for any limit N (every non-negative integer, 0 included),
\* query([{limit: N}]) returns at most N events, and they are the N most
\* recent by created_at among the events that are not tombstoned: no event
\* returned is older than a live event that was left out, and an event is
\* left out only when N events were returned.
C12_LimitNewest ==
    last.op = "query" /\ OnlyLimit(last.filters) /\ ~last.includeDeleted =>
       LET n == last.filters[1].limit
           live == {e \in Stored : ~isDeleted(Store, e)}
           got == Range(last.result)
       IN /\ Len(last.result) <= n
          /\ Len(last.result) = Cardinality(got)
          /\ got \subseteq live
          /\ \A x \in got : \A y \in live \ got : x.created_at >= y.created_at
          /\ live \ got # {} => Len(last.result) = n

\* C13: for any state reached by a sequence of publish calls (supersessions
\* and deletions included), loading dump() into a fresh repository gives the
\* same events in eventsById and the same result of query for every list of
\* filters, with and without the tombstoned events.
C13_RoundTrip ==
    [][last'.op = "round trip" =>
          /\ eventsById' = eventsById
          /\ \A filters \in RoundTripFilters, includeDeleted \in BOOLEAN :
                query(Store', filters, includeDeleted, Now) =
                   query(Store, filters, includeDeleted, Now)]_vars

\* a repository with a superseded event and a tombstone set by a deletion
\* event went through the round trip, its load yielding between chunks
C13_Witness ==
    /\ last.op = "round trip"
    /\ \E x \in Stored : Superseded(x)
    /\ \E d \in Stored : d.kind = DELETE /\ Targets(d) \cap DOMAIN eventsById # {}
    /\ Len(emitted) = 2 /\ Len(emitted[2].added) = 3

\* the events the step inserted in eventsById, in the order of insertion
Inserted == SubSeq(dump(Store'), Len(idOrder) + 1, Len(idOrder'))

\* the suspended loads without the i-th
LoadsWithout(i) == SubSeq(loads, 1, i - 1) \o SubSeq(loads, i + 1, Len(loads))

\* C14: a load call emits no notification per event while it inserts its
\* batches (after the one of its clear, and until its last batch is done, it
\* emits nothing) and, after all batches, emits exactly one aggregated update
\* notification, whose added is the events for which publish returned true
\* during that load, in the order of insertion, and whose removed is the set
\* of the keys of deletes at that moment.
C14_LoadNotifiesOnce ==
    [][/\ last'.op = "load" =>
             /\ emitted'[1] = [added |-> << >>, removed |-> DOMAIN eventsById]
             /\ IF last'.ok
                THEN /\ emitted' = <<emitted'[1],
                                     [added |-> dump(Store'), removed |-> DOMAIN deletes']>>
                     /\ loads' = loads
                ELSE /\ Len(emitted') = 1
                     /\ Len(loads') = Len(loads) + 1
                     /\ loads'[Len(loads')].added = dump(Store')
       /\ last'.op = "load resumed" =>
             \E i \in DOMAIN loads :
                IF last'.ok
                THEN /\ emitted' = <<[added |-> loads[i].added \o Inserted,
                                      removed |-> DOMAIN deletes']>>
                     /\ loads' = LoadsWithout(i)
                ELSE /\ emitted' = << >>
                     /\ loads[i].chunks # << >>
                     /\ loads' = [loads EXCEPT ![i] =
                                     [@ EXCEPT !.added = @ \o Inserted,
                                               !.chunks = Tail(@)]]]_vars

\* a load that yielded has ended: two of its events were accepted, one
\* superseding the other, and the keys of deletes were reported removed
C14_Witness ==
    /\ last.op = "load resumed" /\ last.ok
    /\ Len(emitted) = 1
    /\ emitted[1].removed # {} /\ emitted[1].removed = DOMAIN deletes
    /\ Len(emitted[1].added) = 2

\* C15: in every update notification emitted by publish or load, every
\* member of removed is the id of an event that is no longer current at the
\* time of the emission: the id of a stored event that has been superseded or
\* for which isDeleted is true; removed never names a live event, an address
\* or an id the repository does not know.
C15_RemovedNamesStale ==
    \A i \in 1..Len(emitted) :
       last.op \in {"publish", "load", "load resumed"} /\ (last.op = "load" => i = 2) =>
          \A k \in emitted[i].removed :
             /\ k \in DOMAIN eventsById
             /\ Superseded(eventsById[k]) \/ isDeleted(Store, eventsById[k])

\* the position of an event in the order of insertion, 0 when it is not stored
Position(order, e) ==
    IF e.id \in Range(order) THEN CHOOSE i \in 1..Len(order) : order[i] = e.id ELSE 0

\* C16: subscribers observe the update notifications in the order the
\* mutations were applied: when a notification that adds an event e2 is
\* delivered, no event inserted before e2 is still waiting for the
\* notification that adds it (as the events are that a suspended load has
\* inserted and will report at its end), publish calls at the yields of a
\* load in progress included.
C16_NotifiedInOrder ==
    [][\A i \in 1..Len(emitted') : \A e2 \in Range(emitted'[i].added) :
          \A j \in 1..Len(loads') : \A e1 \in Range(loads'[j].added) :
             ~(/\ Position(idOrder', e1) > 0
               /\ Position(idOrder', e1) < Position(idOrder', e2))]_vars

\* C20: when a load emits its aggregated notification, every event of its
\* added list is in eventsById, also when clear, publish or a second load ran
\* at one of its yields between chunks.
C20_AddedAreStored ==
    last.op \in {"load", "load resumed"} /\ last.ok =>
       \A e \in Range(emitted[Len(emitted)].added) :
          e.id \in DOMAIN eventsById /\ eventsById[e.id] = e

\* C17: publishing an event that has not passed the trust validation ends in
\* an error, not in a return of false, and the error is raised before any
\* mutation: the indices and deletes are unchanged and no notification is
\* emitted.
C17_UntrustedThrowsFirst ==
    [][\A e \in Universe :
          last'.op \in {"publish", "publish threw"} /\ last'.event = <<e>> =>
             IF isTrustedEvent(e) THEN last'.op = "publish"
             ELSE /\ last'.op = "publish threw"
                  /\ UNCHANGED <<eventsById, idOrder, eventsByWrap, eventsByAddress,
                                 eventsByTag, eventsByDay, eventsByAuthor, deletes>>
                  /\ emitted' = << >>]_vars

\* an event that is not trusted was published to a repository that holds
\* events and tombstones while a load is suspended
C17_Witness ==
    /\ last.op = "publish threw"
    /\ ~isTrustedEvent(last.event[1])
    /\ DOMAIN eventsById # {} /\ DOMAIN deletes # {}
    /\ loads # << >>

\* the repository after the publish calls of a sequence of events
RECURSIVE PublishAll(_, _)
PublishAll(s, events) ==
    IF events = << >> THEN s ELSE PublishAll(publish(s, Head(events)).store, Tail(events))

\* the trusted deletion events and the events they name
DeletionPairs ==
    {<<d, x>> \in Universe \X Universe :
        isTrustedEvent(d) /\ isTrustedEvent(x) /\ d.kind = DELETE /\ References(d, x)}

\* C18: deletion is independent of the order of arrival: for a deletion
\* event D and an event X that D names by id or by address, publishing D
\* then X and publishing X then D into the same repository give the same
\* answer to whether the default query returns X.
C18_ArrivalOrder ==
    \A p \in DeletionPairs :
       (p[2] \in Queryable(PublishAll(Store, <<p[1], p[2]>>)))
          <=> (p[2] \in Queryable(PublishAll(Store, <<p[2], p[1]>>)))

\* X, then a newer D that names it, were published, and X is tombstoned;
\* published after D, X would have been rejected
C18_Witness ==
    /\ last.op = "publish" /\ last.ok
    /\ \E p \in DeletionPairs :
          /\ last.event = <<p[1]>>
          /\ idOrder = <<p[2].id, p[1].id>>
          /\ p[2] \notin Queryable(Store)
          /\ ~publish(publish(EmptyStore, p[1]).store, p[2]).accepted

\* the complete filter evaluated over a full scan of eventsById
FullScan(filter, includeDeleted) ==
    {e \in Stored : (includeDeleted \/ ~isDeleted(Store, e)) /\ matchFilter(filter, e)}

\* the last call was a query with one filter that has no limit and is
\* narrowed by the author index or by a tag index
NarrowedByIndex ==
    /\ last.op = "query" /\ Len(last.filters) = 1
    /\ LET f == last.filters[1]
       IN /\ ~Has(f, "ids") /\ ~Has(f, "limit")
          /\ \/ Has(f, "authors")
             \/ ~HasTimes(f) /\ FirstTagField(f) # 0

\* C19, as claimed: for a filter without limit that is narrowed by the author
\* index (authors and no ids) or by a tag index (a one-letter #X field and
\* no ids, authors, since or until), query returns the same set of events as
\* the complete filter evaluated over a full scan of eventsById, with
\* includeDeleted false and with includeDeleted true.
C19_NarrowingEqualsScan ==
    NarrowedByIndex =>
       Range(last.result) = FullScan(last.filters[1], last.includeDeleted)

\* C19, amended: with includeDeleted false query returns the set of the full
\* scan; with includeDeleted true it returns a subset of it, and the events
\* of the full scan it leaves out are events superseded at their address.
C19_NarrowingUpToSuperseded ==
    NarrowedByIndex =>
       LET got == Range(last.result)
           scan == FullScan(last.filters[1], last.includeDeleted)
       IN /\ got \subseteq scan
          /\ \A e \in scan \ got : last.includeDeleted /\ Superseded(e)
          /\ Len(last.result) = Cardinality(got)

\* a query by two authors, tombstoned events included, returned events of
\* both and left a superseded event out
C19_Witness ==
    /\ NarrowedByIndex /\ last.includeDeleted
    /\ Has(last.filters[1], "authors") /\ Len(last.filters[1].authors) = 2
    /\ \E x, y \in Range(last.result) : x.pubkey # y.pubkey
    /\ FullScan(last.filters[1], TRUE) \ Range(last.result) # {}

====
